---- MODULE Spec2Model ----
(***************************************************************************)
(* Model of the elevation and Telegram endpoints of Strekoza              *)
(* (src/server.py).                                                        *)
(*                                                                         *)
(* get_elevation_profile is modelled statement by statement: the guard on *)
(* srtm_data, the first pass that samples and classifies every route      *)
(* point, the second pass that resolves every gap, and the return.        *)
(*                                                                         *)
(* Conventions                                                             *)
(*  - Python's None is the empty tuple, a present value v is <<v>>.        *)
(*  - Entries of `elevations` are numbers.  A number is kept as an exact   *)
(*    fraction <<num, den>> in lowest terms with den > 0, so that the      *)
(*    division and the multiplication of the interpolation are computed    *)
(*    and not assumed.  The rounding of IEEE-754 doubles is not modelled.  *)
(*  - A text is a tuple of words, so that `in`, lower() and f-strings are  *)
(*    computed on it.                                                      *)
(*  - Sequences are 1-based: Python index i is position i + 1 here.  Only  *)
(*    differences of indices enter the arithmetic.                         *)
(***************************************************************************)
EXTENDS Integers, Sequences, FiniteSets, TLC

VARIABLES srtm_data, pc, route, sampled, raw_elevations, elevations, response,
          TELEGRAM_BOT_TOKEN, reply, exc, handler

vars == <<srtm_data, pc, route, sampled, raw_elevations, elevations, response,
          TELEGRAM_BOT_TOKEN, reply, exc, handler>>

\* what the elevation handler leaves alone, what the Telegram handlers do
telegram == <<TELEGRAM_BOT_TOKEN, reply, exc>>

elevation == <<srtm_data, route, sampled, raw_elevations, elevations>>

(* ---------------------------- bounds ---------------------------------- *)

\* longest route of a request
MaxLen == 4

\* readings the sampler may return: the void value, a negative reading,
\* zero, low-lying values, the threshold itself and ordinary terrain
RawReadings == {-32768, -1, 0, 2, 3, 5, 50, 100, 130}

\* a request point: too short, a (lat, lng) pair, too long
Points == {<<35>>, <<35, -118>>, <<35, -118, 7>>}

(* ---------------------------- values ---------------------------------- *)

None == <<>>

Some(v) == <<v>>

\* what one call of srtm_data.get_altitude can do
Outcomes ==
    {[kind |-> "raise", value |-> 0], [kind |-> "None", value |-> 0]}
      \cup {[kind |-> "number", value |-> r] : r \in RawReadings}

Abs(n) == IF n < 0 THEN -n ELSE n

RECURSIVE GCD(_, _)
GCD(a, b) == IF b = 0 THEN a ELSE GCD(b, a % b)

\* the number n / d, d # 0
Frac(n, d) ==
    LET s == IF d < 0 THEN -1 ELSE 1
        g == GCD(Abs(n), Abs(d))
    IN  <<(s * n) \div g, (s * d) \div g>>

Num(v) == Frac(v, 1)

Add(x, y) == Frac(x[1] * y[2] + y[1] * x[2], x[2] * y[2])

Mul(x, y) == Frac(x[1] * y[1], x[2] * y[2])

IsNumber(x) == /\ Len(x) = 2
               /\ x[2] > 0
               /\ GCD(Abs(x[1]), x[2]) = 1

(* ------------------------- first pass --------------------------------- *)

\* Classify with only the void value rejected: other negatives pass
ClassifyVoidOnly(o) ==
    IF o.kind = "raise" THEN None
    ELSE IF o.kind = "None" THEN None
    ELSE IF o.value = -32768 THEN None
    ELSE Some(o.value)

\* Classify with `elevation <= 0` in place of `elevation < 0`
ClassifyLEZero(o) ==
    IF o.kind = "raise" THEN None
    ELSE IF o.kind = "None" THEN None
    ELSE IF o.value <= 0 THEN None
    ELSE Some(o.value)

\* lines 215-225: the value appended to raw_elevations for one sample
Classify(o) ==
    IF o.kind = "raise" THEN None
    ELSE IF o.kind = "None" THEN None
    ELSE IF o.value < 0 THEN None
    ELSE Some(o.value)

(* ------------------------- second pass -------------------------------- *)

\* ScanPrev without the `break`: the loop runs on to the farthest entry
ScanPrevNoBreak(raw, j) ==
    LET found == {k \in 1..j : raw[k] # None}
    IN  IF found = {} THEN 0 ELSE CHOOSE m \in found : \A x \in found : m <= x

\* lines 233-237: scan j, j-1, ..., 1 for an entry that is not None; 0 if none
RECURSIVE ScanPrev(_, _)
ScanPrev(raw, j) ==
    IF j < 1 THEN 0
    ELSE IF raw[j] # None THEN j
    ELSE ScanPrev(raw, j - 1)

\* lines 242-246: scan j, j+1, ..., Len(raw) for an entry that is not None
RECURSIVE ScanNext(_, _)
ScanNext(raw, j) ==
    IF j > Len(raw) THEN 0
    ELSE IF raw[j] # None THEN j
    ELSE ScanNext(raw, j + 1)

\* Interpolate with the weight measured from the wrong end
InterpolateSwapped(prev_val, prev_idx, next_val, next_idx, i) ==
    LET weight == Frac(next_idx - i, next_idx - prev_idx)
    IN  Add(Num(prev_val), Mul(Num(next_val - prev_val), weight))

\* lines 256-257
Interpolate(prev_val, prev_idx, next_val, next_idx, i) ==
    LET weight == Frac(i - prev_idx, next_idx - prev_idx)
    IN  Add(Num(prev_val), Mul(Num(next_val - prev_val), weight))

\* Strategy with `<= 5` in the test for two low neighbours
StrategyLE5(raw, i, prev_idx, next_idx) ==
    IF prev_idx # 0 /\ next_idx # 0
    THEN IF raw[prev_idx][1] <= 5 /\ raw[next_idx][1] <= 5
         THEN Num(0)
         ELSE Frac(raw[prev_idx][1] * (next_idx - i) + raw[next_idx][1] * (i - prev_idx),
                   next_idx - prev_idx)
    ELSE IF prev_idx # 0
    THEN (IF raw[prev_idx][1] < 5 THEN Num(0) ELSE Num(raw[prev_idx][1]))
    ELSE IF next_idx # 0
    THEN (IF raw[next_idx][1] < 5 THEN Num(0) ELSE Num(raw[next_idx][1]))
    ELSE Num(0)

\* Strategy that holds the single neighbour's value even when it is low
StrategyEdgeHold(raw, i, prev_idx, next_idx) ==
    IF prev_idx # 0 /\ next_idx # 0
    THEN IF raw[prev_idx][1] < 5 /\ raw[next_idx][1] < 5
         THEN Num(0)
         ELSE Frac(raw[prev_idx][1] * (next_idx - i) + raw[next_idx][1] * (i - prev_idx),
                   next_idx - prev_idx)
    ELSE IF prev_idx # 0
    THEN Num(raw[prev_idx][1])
    ELSE IF next_idx # 0
    THEN Num(raw[next_idx][1])
    ELSE Num(0)

\* Strategy without the final else: a route with no Valid sample keeps None
StrategyNoFallback(raw, i, prev_idx, next_idx) ==
    IF prev_idx # 0 /\ next_idx # 0
    THEN IF raw[prev_idx][1] < 5 /\ raw[next_idx][1] < 5
         THEN Num(0)
         ELSE Frac(raw[prev_idx][1] * (next_idx - i) + raw[next_idx][1] * (i - prev_idx),
                   next_idx - prev_idx)
    ELSE IF prev_idx # 0
    THEN (IF raw[prev_idx][1] < 5 THEN Num(0) ELSE Num(raw[prev_idx][1]))
    ELSE IF next_idx # 0
    THEN (IF raw[next_idx][1] < 5 THEN Num(0) ELSE Num(raw[next_idx][1]))
    ELSE None

\* lines 249-267: the value appended for a gap, from the two scan results
Strategy(raw, i, prev_idx, next_idx) ==
    IF prev_idx # 0 /\ next_idx # 0
    THEN IF raw[prev_idx][1] < 5 /\ raw[next_idx][1] < 5
         THEN Num(0)
         ELSE Interpolate(raw[prev_idx][1], prev_idx, raw[next_idx][1], next_idx, i)
    ELSE IF prev_idx # 0
    THEN (IF raw[prev_idx][1] < 5 THEN Num(0) ELSE Num(raw[prev_idx][1]))
    ELSE IF next_idx # 0
    THEN (IF raw[next_idx][1] < 5 THEN Num(0) ELSE Num(raw[next_idx][1]))
    ELSE Num(0)

\* Fill that applies the low-elevation rule to Valid samples as well
FillZeroLow(raw, i) ==
    IF raw[i] = None
    THEN LET p == ScanPrev(raw, i - 1)
             n == ScanNext(raw, i + 1)
             near == IF p # 0 THEN p ELSE n
         IN  IF p # 0 /\ n # 0
             THEN IF raw[p][1] < 5 /\ raw[n][1] < 5
                  THEN Num(0)
                  ELSE Frac(raw[p][1] * (n - i) + raw[n][1] * (i - p), n - p)
             ELSE IF near = 0 \/ raw[near][1] < 5 THEN Num(0) ELSE Num(raw[near][1])
    ELSE IF raw[i][1] < 5 THEN Num(0) ELSE Num(raw[i][1])

\* lines 229-269: the value appended to elevations for position i
Fill(raw, i) ==
    IF raw[i] = None
    THEN Strategy(raw, i, ScanPrev(raw, i - 1), ScanNext(raw, i + 1))
    ELSE Num(raw[i][1])

(* --------------------------- responses -------------------------------- *)

NoResponse == [raised |-> FALSE, status_code |-> 0, key |-> "", value |-> <<>>]

\* a dict returned by the handler: FastAPI answers 200 with it
Returned(k, v) == [raised |-> FALSE, status_code |-> 200, key |-> k, value |-> v]

\* an exception that is not an HTTPException escapes the handler: 500
Unhandled(e) == [raised |-> TRUE, status_code |-> 500, key |-> e, value |-> <<>>]

(* ------------------------ Telegram values ----------------------------- *)

\* an HTTPException leaving a handler: FastAPI answers with its status
\* code and its detail
Raised(e) ==
    [raised |-> TRUE, status_code |-> e.status_code, key |-> e.class, value |-> e.detail]

NoException == [class |-> "", status_code |-> 0, detail |-> <<>>]

HTTPException(code, text) == [class |-> "HTTPException", status_code |-> code, detail |-> text]

\* any other exception; its status_code field is unused
Error(cls, text) == [class |-> cls, status_code |-> 0, detail |-> text]

\* str(e): Starlette prints an HTTPException as "<status_code>: <detail>"
Str(e) ==
    IF e.class = "HTTPException" THEN <<ToString(e.status_code) \o ":">> \o e.detail
    ELSE e.detail

\* descriptions the Bot API may send with a refusal
Descriptions ==
    { <<"Forbidden:", "bot", "was", "blocked", "by", "the", "user">>,
      <<"Bad", "Request:", "chat", "not", "found">>,
      <<"Bad", "Request:", "Chat", "Not", "Found">>,
      <<"Request", "Entity", "Too", "Large">> }

\* str.lower(), word by word
LowerWord(w) ==
    CASE w = "Forbidden:" -> "forbidden:"
      [] w = "Bad" -> "bad"
      [] w = "Request:" -> "request:"
      [] w = "Request" -> "request"
      [] w = "Chat" -> "chat"
      [] w = "Not" -> "not"
      [] w = "Found" -> "found"
      [] w = "Entity" -> "entity"
      [] w = "Too" -> "too"
      [] w = "Large" -> "large"
      [] w = "Unknown" -> "unknown"
      [] OTHER -> w

Lower(text) == [k \in 1..Len(text) |-> LowerWord(text[k])]

\* `needle in text`
Contains(text, needle) ==
    \E k \in 0..(Len(text) - Len(needle)) : SubSeq(text, k + 1, k + Len(needle)) = needle

NoReply ==
    [kind |-> "", status_code |-> 0, json_header |-> FALSE, parses |-> FALSE,
     ok |-> FALSE, description |-> None, file_id |-> None, file_path |-> None]

\* the request did not get an answer: httpx raises a subclass of HTTPError
NoAnswer == [NoReply EXCEPT !.kind = "HTTPError"]

\* answers to sendDocument
SendReplies ==
    {NoAnswer} \cup
    { [kind |-> "response", status_code |-> c, json_header |-> h, parses |-> j,
       ok |-> k, description |-> d, file_id |-> f, file_path |-> None] :
         c \in {200, 400, 403}, h \in BOOLEAN, j \in BOOLEAN, k \in BOOLEAN,
         d \in {None} \cup {Some(t) : t \in Descriptions},
         f \in {None, Some("BQACAgIAAx")} }

\* answers to getFile
InfoReplies ==
    {NoAnswer} \cup
    { [kind |-> "response", status_code |-> c, json_header |-> TRUE, parses |-> j,
       ok |-> k, description |-> None, file_id |-> None, file_path |-> f] :
         c \in {200, 400}, j \in BOOLEAN, k \in BOOLEAN,
         f \in {None, Some(<<"documents", "file_7.gpx">>)} }

\* answers to the GET of the file itself
FileReplies ==
    {NoAnswer} \cup
    { [NoReply EXCEPT !.kind = "response", !.status_code = c] : c \in {200, 404} }

\* line 324: error_data.get('description', <default>)
ErrorDescription(r) ==
    IF r.json_header /\ r.description # None THEN r.description[1]
    ELSE <<"Unknown", "error">>

\* lines 313-355: the exception the body of the try raises for an answer
\* to sendDocument, NoException if it gets to the return
UploadRaises(r) ==
    IF r.kind = "HTTPError" THEN Error("httpx.HTTPError", <<"connect", "failed">>)
    ELSE IF r.status_code # 200
    THEN IF r.json_header /\ ~r.parses
         THEN Error("JSONDecodeError", <<"Expecting", "value">>)
         ELSE IF \/ Contains(Lower(ErrorDescription(r)), <<"bot", "was", "blocked">>)
                 \/ Contains(Lower(ErrorDescription(r)), <<"chat", "not", "found">>)
              THEN HTTPException(400, <<"start", "a", "dialog", "with", "the", "bot">>)
              ELSE HTTPException(500, <<"Telegram", "upload", "error:">> \o ErrorDescription(r))
    ELSE IF ~r.parses THEN Error("JSONDecodeError", <<"Expecting", "value">>)
    ELSE IF ~r.ok
    THEN HTTPException(500, <<"Telegram", "API", "error:">>
                              \o (IF r.description # None THEN r.description[1]
                                  ELSE <<"Unknown", "error">>))
    ELSE IF r.file_id = None
    THEN HTTPException(500, <<"no", "file_id", "in", "the", "answer">>)
    ELSE NoException

\* lines 382-406: the exception raised for an answer to getFile
InfoRaises(r) ==
    IF r.kind = "HTTPError" THEN Error("httpx.HTTPError", <<"connect", "failed">>)
    ELSE IF r.status_code # 200
    THEN HTTPException(500, <<"file", "info", "error">>)
    ELSE IF ~r.parses THEN Error("JSONDecodeError", <<"Expecting", "value">>)
    ELSE IF ~r.ok THEN HTTPException(404, <<"file", "not", "found", "in", "Telegram">>)
    ELSE IF r.file_path = None THEN HTTPException(404, <<"no", "path", "to", "the", "file">>)
    ELSE NoException

\* lines 410-416: the exception raised for the answer to the GET of the file
FileRaises(r) ==
    IF r.kind = "HTTPError" THEN Error("httpx.HTTPError", <<"connect", "failed">>)
    ELSE IF r.status_code # 200
    THEN HTTPException(500, <<"file", "download", "error">>)
    ELSE NoException

\* lines 279-283: get_telegram_bot_token without a token
TokenMissing == HTTPException(500, <<"TELEGRAM_BOT_TOKEN", "not", "configured">>)

\* lines 357-366 and 432-441: the first matching except clause.  An
\* HTTPException is not an httpx.HTTPError and is an Exception.
Handled(e, what) ==
    IF e.class = "httpx.HTTPError"
    THEN HTTPException(500, <<"Telegram", "connection", "error:">> \o Str(e))
    ELSE HTTPException(500, what \o Str(e))

(* ---------------------------- actions --------------------------------- *)

\* lines 145-151: the collection was built, or the except branch left None;
\* line 274: the bot token is in the environment or it is not
Init ==
    /\ srtm_data \in {None, Some("Srtm3HeightMapCollection")}
    /\ pc = "idle"
    /\ route = <<>>
    /\ sampled = <<>>
    /\ raw_elevations = <<>>
    /\ elevations = <<>>
    /\ response = NoResponse
    /\ TELEGRAM_BOT_TOKEN \in {None, Some("bot-token")}
    /\ reply = NoReply
    /\ exc = NoException
    /\ handler = ""

RECURSIVE Routes(_)
Routes(n) ==
    IF n = 0 THEN {<<>>}
    ELSE Routes(n - 1) \cup {Append(r, p) : r \in {q \in Routes(n - 1) : Len(q) = n - 1}, p \in Points}

\* lines 206-212: a request arrives; without a collection the handler
\* returns the error dict at once
Request ==
    /\ pc = "idle"
    /\ \E r \in Routes(MaxLen) :
         /\ route' = r
         /\ elevations' = <<>>
         /\ IF srtm_data = None
            THEN /\ response' = Returned("error", <<>>)
                 /\ pc' = "done"
                 /\ UNCHANGED raw_elevations
            ELSE /\ raw_elevations' = <<>>
                 /\ pc' = "pass1"
                 /\ UNCHANGED response
    /\ handler' = "get_elevation_profile"
    /\ UNCHANGED <<srtm_data, sampled>>
    /\ UNCHANGED telegram

\* line 214: a point that is not a pair cannot be unpacked
Pass1Unpack ==
    /\ pc = "pass1"
    /\ Len(raw_elevations) < Len(route)
    /\ Len(route[Len(raw_elevations) + 1]) # 2
    /\ response' = Unhandled("ValueError")
    /\ pc' = "raised"
    /\ UNCHANGED <<srtm_data, route, sampled, raw_elevations, elevations>>
    /\ UNCHANGED <<telegram, handler>>

\* Pass1Sample without the try/except: a raising sampler ends the request
Pass1SampleNoTry ==
    /\ pc = "pass1"
    /\ Len(raw_elevations) < Len(route)
    /\ Len(route[Len(raw_elevations) + 1]) = 2
    /\ \E o \in Outcomes :
         IF o.kind = "raise"
         THEN /\ response' = [raised |-> TRUE, status_code |-> 500,
                              key |-> "Exception", value |-> <<>>]
              /\ pc' = "raised"
              /\ UNCHANGED <<sampled, raw_elevations>>
         ELSE /\ sampled' = Append(sampled, o)
              /\ raw_elevations' = Append(raw_elevations,
                                          IF o.kind = "None" \/ o.value < 0 THEN None ELSE Some(o.value))
              /\ UNCHANGED <<pc, response>>
    /\ UNCHANGED <<srtm_data, route, elevations>>
    /\ UNCHANGED <<telegram, handler>>

\* lines 213-225: sample one point and classify it
Pass1Sample ==
    /\ pc = "pass1"
    /\ Len(raw_elevations) < Len(route)
    /\ Len(route[Len(raw_elevations) + 1]) = 2
    /\ \E o \in Outcomes :
         /\ sampled' = Append(sampled, o)
         /\ raw_elevations' = Append(raw_elevations, Classify(o))
    /\ UNCHANGED <<srtm_data, pc, route, elevations, response>>
    /\ UNCHANGED <<telegram, handler>>

\* line 213: the loop over the points is exhausted
Pass1Exit ==
    /\ pc = "pass1"
    /\ Len(raw_elevations) = Len(route)
    /\ pc' = "pass2"
    /\ UNCHANGED <<srtm_data, route, sampled, raw_elevations, elevations, response>>
    /\ UNCHANGED <<telegram, handler>>

\* lines 228-269: one iteration of the second loop
Pass2Step ==
    /\ pc = "pass2"
    /\ Len(elevations) < Len(raw_elevations)
    /\ elevations' = Append(elevations, Fill(raw_elevations, Len(elevations) + 1))
    /\ UNCHANGED <<srtm_data, pc, route, sampled, raw_elevations, response>>
    /\ UNCHANGED <<telegram, handler>>

\* line 271
Return ==
    /\ pc = "pass2"
    /\ Len(elevations) = Len(raw_elevations)
    /\ response' = Returned("elevations", elevations)
    /\ pc' = "done"
    /\ UNCHANGED <<srtm_data, route, sampled, raw_elevations, elevations>>
    /\ UNCHANGED <<telegram, handler>>

(* ------------------------ Telegram actions ---------------------------- *)

\* lines 296-297: an upload arrives and asks for the bot token
UploadRequest ==
    /\ pc = "idle"
    /\ IF TELEGRAM_BOT_TOKEN = None
       THEN exc' = TokenMissing /\ pc' = "upload_except"
       ELSE exc' = NoException /\ pc' = "upload_post"
    /\ UNCHANGED <<response, reply, TELEGRAM_BOT_TOKEN>>
    /\ handler' = "upload_telegram_file"
    /\ UNCHANGED elevation

\* lines 300-355: the file is posted to sendDocument and the answer judged
UploadPost ==
    /\ pc = "upload_post"
    /\ \E r \in SendReplies :
         /\ reply' = r
         /\ exc' = UploadRaises(r)
         /\ IF UploadRaises(r) = NoException
            THEN /\ response' = Returned("file_id", r.file_id)
                 /\ pc' = "done"
            ELSE /\ pc' = "upload_except"
                 /\ UNCHANGED response
    /\ UNCHANGED TELEGRAM_BOT_TOKEN
    /\ UNCHANGED <<elevation, handler>>

\* lines 357-366
UploadExcept ==
    /\ pc = "upload_except"
    /\ response' = Raised(Handled(exc, <<"file", "upload", "error:">>))
    /\ pc' = "raised"
    /\ UNCHANGED <<TELEGRAM_BOT_TOKEN, reply, exc>>
    /\ UNCHANGED <<elevation, handler>>

\* lines 376-377: a download arrives and asks for the bot token
DownloadRequest ==
    /\ pc = "idle"
    /\ IF TELEGRAM_BOT_TOKEN = None
       THEN exc' = TokenMissing /\ pc' = "download_except"
       ELSE exc' = NoException /\ pc' = "download_info"
    /\ UNCHANGED <<response, reply, TELEGRAM_BOT_TOKEN>>
    /\ handler' = "download_telegram_file"
    /\ UNCHANGED elevation

\* lines 380-406: getFile is asked for the path of the file
DownloadInfo ==
    /\ pc = "download_info"
    /\ \E r \in InfoReplies :
         /\ reply' = r
         /\ exc' = InfoRaises(r)
         /\ pc' = IF InfoRaises(r) = NoException THEN "download_file" ELSE "download_except"
    /\ UNCHANGED <<response, TELEGRAM_BOT_TOKEN>>
    /\ UNCHANGED <<elevation, handler>>

\* lines 409-430: the file is fetched and handed on under its base name
DownloadFile ==
    /\ pc = "download_file"
    /\ \E r \in FileReplies :
         /\ exc' = FileRaises(r)
         /\ IF FileRaises(r) = NoException
            THEN /\ response' = Returned("attachment", <<reply.file_path[1][Len(reply.file_path[1])]>>)
                 /\ pc' = "done"
            ELSE /\ pc' = "download_except"
                 /\ UNCHANGED response
    /\ UNCHANGED <<TELEGRAM_BOT_TOKEN, reply>>
    /\ UNCHANGED <<elevation, handler>>

\* lines 432-441
DownloadExcept ==
    /\ pc = "download_except"
    /\ response' = Raised(Handled(exc, <<"file", "download", "error:">>))
    /\ pc' = "raised"
    /\ UNCHANGED <<TELEGRAM_BOT_TOKEN, reply, exc>>
    /\ UNCHANGED <<elevation, handler>>

\* the request is over; its locals are gone, srtm_data stays as it is
Finish ==
    /\ pc \in {"done", "raised"}
    /\ pc' = "idle"
    /\ route' = <<>>
    /\ sampled' = <<>>
    /\ raw_elevations' = <<>>
    /\ elevations' = <<>>
    /\ response' = NoResponse
    /\ reply' = NoReply
    /\ exc' = NoException
    /\ handler' = ""
    /\ UNCHANGED <<srtm_data, TELEGRAM_BOT_TOKEN>>

Next ==
    \/ Request
    \/ Pass1Unpack
    \/ Pass1Sample
    \/ Pass1Exit
    \/ Pass2Step
    \/ Return
    \/ UploadRequest
    \/ UploadPost
    \/ UploadExcept
    \/ DownloadRequest
    \/ DownloadInfo
    \/ DownloadFile
    \/ DownloadExcept
    \/ Finish

Spec == Init /\ [][Next]_vars

TypeOK ==
    /\ pc \in {"idle", "pass1", "pass2", "done", "raised", "upload_post", "upload_except",
              "download_info", "download_file", "download_except"}
    /\ Len(route) <= MaxLen
    /\ Len(raw_elevations) = Len(sampled)
    /\ Len(elevations) <= Len(raw_elevations)

(* ====================== properties of the endpoint ==================== *)

\* the list a client sees once the handler has returned, the list under
\* construction before that
Output ==
    IF pc = "done" /\ response.key = "elevations" THEN response.value ELSE elevations

Initialised == srtm_data # None

Elevation == handler = "get_elevation_profile"

AllPairs == \A k \in 1..Len(route) : Len(route[k]) = 2

Invalid(k) == raw_elevations[k] = None

Val(k) == raw_elevations[k][1]

ValidBefore(i) == {j \in 1..(i - 1) : ~Invalid(j)}

ValidAfter(i) == {j \in (i + 1)..Len(raw_elevations) : ~Invalid(j)}

Greatest(S) == CHOOSE m \in S : \A x \in S : x <= m

Least(S) == CHOOSE m \in S : \A x \in S : m <= x

\* the straight line through (p, Val(p)) and (n, Val(n)), read at i
Linear(p, n, i) ==
    Add(Num(Val(p)), Frac((Val(n) - Val(p)) * (i - p), n - p))

Gaps == {i \in 1..Len(Output) : Invalid(i)}

Inner == {i \in Gaps : ValidBefore(i) # {} /\ ValidAfter(i) # {}}

Edge == {i \in Gaps : (ValidBefore(i) = {}) # (ValidAfter(i) = {})}

Nearest(i) ==
    IF ValidBefore(i) # {} THEN Greatest(ValidBefore(i)) ELSE Least(ValidAfter(i))

\* C1: with the collection initialised, a request whose points are all
\* (lat, lon) pairs never ends in an exception, whatever the sampler does,
\* and what it returns is an 'elevations' list with one number per point.
C1_ProfileTotal ==
    (Elevation /\ Initialised /\ AllPairs) =>
        /\ pc # "raised"
        /\ pc = "done" =>
             /\ ~response.raised
             /\ response.key = "elevations"
             /\ Len(response.value) = Len(route)
             /\ \A k \in 1..Len(response.value) :
                  response.value[k] # None /\ IsNumber(response.value[k])

C1_Witness ==
    /\ pc = "done"
    /\ Initialised
    /\ Len(route) >= 3
    /\ response.key = "elevations"
    /\ \E a, b, c \in 1..Len(sampled) :
         /\ sampled[a].kind = "raise"
         /\ sampled[b].kind = "None"
         /\ sampled[c].kind = "number"

\* C2: no entry of the returned list is negative or the void value, even
\* when the sampler returned negative readings or -32768.
C2_NoInvalidLeak ==
    \A k \in 1..Len(Output) :
        /\ Output[k][1] >= 0
        /\ Output[k] # Num(-32768)

C2_Witness ==
    /\ pc = "done"
    /\ response.key = "elevations"
    /\ \E a, b \in 1..Len(sampled) :
         /\ sampled[a] = [kind |-> "number", value |-> -32768]
         /\ sampled[b] = [kind |-> "number", value |-> -1]

\* C3: a position whose sample is Valid(v) carries v in the output, at the
\* same index, also for v = 0 and for 0 < v < 5.
C3_ValidUnchanged ==
    \A i \in 1..Len(Output) : ~Invalid(i) => Output[i] = Num(Val(i))

C3_Witness ==
    /\ pc = "done"
    /\ response.key = "elevations"
    /\ \E a, b, c \in 1..Len(raw_elevations) :
         /\ a < b /\ b < c
         /\ raw_elevations[a] = Some(0)
         /\ Invalid(b)
         /\ raw_elevations[c] = Some(3)

\* C4: a gap with a Valid value on both sides, not both below 5, gets the
\* value of the straight line between its nearest Valid neighbours, by
\* index distance; [100, -, -, 130] becomes [100, 110, 120, 130].
C4_Interpolation ==
    /\ \A i \in Inner :
         LET p == Greatest(ValidBefore(i))
             n == Least(ValidAfter(i))
         IN  ~(Val(p) < 5 /\ Val(n) < 5) => Output[i] = Linear(p, n, i)
    /\ (pc = "done" /\ raw_elevations = <<Some(100), None, None, Some(130)>>)
          => response.value = <<Num(100), Num(110), Num(120), Num(130)>>

C4_Witness ==
    /\ pc = "done"
    /\ raw_elevations = <<Some(100), None, None, Some(130)>>
    /\ response.value = <<Num(100), Num(110), Num(120), Num(130)>>

\* C5: a gap whose nearest Valid neighbours on both sides are both strictly
\* below 5 gets 0, however long the gap; a neighbour of exactly 5 does not
\* count as low: the gap is then interpolated and is not 0.
C5_SeaLevel ==
    \A i \in Inner :
        LET p == Greatest(ValidBefore(i))
            n == Least(ValidAfter(i))
        IN  /\ (Val(p) < 5 /\ Val(n) < 5) => Output[i] = Num(0)
            /\ (Val(p) = 5 \/ Val(n) = 5) =>
                  Output[i] = Linear(p, n, i) /\ Output[i] # Num(0)

C5_Witness ==
    /\ pc = "done"
    /\ raw_elevations = <<Some(2), None, None, Some(3)>>
    /\ response.value = <<Num(2), Num(0), Num(0), Num(3)>>

\* C6: a gap with a Valid value on one side only gets 0 if the nearest
\* Valid value is below 5 and that value otherwise; [-, -, 50] becomes
\* [50, 50, 50].
C6_EdgeFill ==
    /\ \A i \in Edge :
         Output[i] = IF Val(Nearest(i)) < 5 THEN Num(0) ELSE Num(Val(Nearest(i)))
    /\ (pc = "done" /\ raw_elevations = <<None, None, Some(50)>>)
          => response.value = <<Num(50), Num(50), Num(50)>>

C6_Witness ==
    /\ pc = "done"
    /\ raw_elevations = <<None, None, Some(50)>>
    /\ response.value = <<Num(50), Num(50), Num(50)>>

\* C7: when every sample of the route is Invalid the output is 0 at every
\* position and as long as the route; the empty route gives the empty list.
C7_AllInvalid ==
    (Elevation /\ pc = "done" /\ Initialised /\ \A k \in 1..Len(raw_elevations) : Invalid(k)) =>
        /\ response.key = "elevations"
        /\ Len(response.value) = Len(route)
        /\ \A k \in 1..Len(response.value) : response.value[k] = Num(0)
        /\ route = <<>> => response.value = <<>>

C7_Witness ==
    /\ pc = "done"
    /\ Len(route) >= 2
    /\ raw_elevations = [k \in 1..Len(route) |-> None]
    /\ response.value = [k \in 1..Len(route) |-> Num(0)]

\* C8: the first pass marks a point Invalid exactly when the sampler
\* raised, returned None or returned a negative number; a reading r >= 0,
\* 0 included, is kept as r.  Equal sampler outcomes are classified alike.
C8_Classification ==
    /\ \A k \in 1..Len(sampled) :
         LET o == sampled[k]
             bad == o.kind = "raise" \/ o.kind = "None" \/ (o.kind = "number" /\ o.value < 0)
         IN  /\ Invalid(k) <=> bad
             /\ ~bad => raw_elevations[k] = Some(o.value)
    /\ \A k, l \in 1..Len(sampled) :
         sampled[k] = sampled[l] => raw_elevations[k] = raw_elevations[l]

C8_Witness ==
    /\ Len(sampled) >= 3
    /\ \E a, b, c \in 1..Len(sampled) :
         /\ sampled[a] = [kind |-> "number", value |-> 0]
         /\ raw_elevations[a] = Some(0)
         /\ sampled[b] = [kind |-> "number", value |-> -32768]
         /\ Invalid(b)
         /\ sampled[c] = sampled[a]
         /\ c # a

\* C9: when the collection could not be initialised, a request ends in a
\* raised error, never in a normal return, and never with an elevations
\* list.
C9_RefusedWhenUninitialised ==
    (Elevation /\ ~Initialised /\ pc \in {"done", "raised"}) =>
        /\ response.raised
        /\ response.status_code # 200
        /\ response.key # "elevations"

\* the nearest Valid index to the left of every position, by one forward
\* sweep that carries the last Valid index seen (0: none)
RECURSIVE LeftSweep(_, _, _, _)
LeftSweep(raw, k, last, acc) ==
    IF k > Len(raw) THEN acc
    ELSE LeftSweep(raw, k + 1, IF raw[k] # None THEN k ELSE last, Append(acc, last))

\* the nearest Valid index to the right of every position, by one backward
\* sweep; acc holds the answers for positions k+1..Len(raw)
RECURSIVE RightSweep(_, _, _, _)
RightSweep(raw, k, last, acc) ==
    IF k < 1 THEN acc
    ELSE RightSweep(raw, k - 1, IF raw[k] # None THEN k ELSE last, <<last>> \o acc)

Reference(raw) ==
    LET left == LeftSweep(raw, 1, 0, <<>>)
        right == RightSweep(raw, Len(raw), 0, <<>>)
    IN  [i \in 1..Len(raw) |->
            IF raw[i] = None THEN Strategy(raw, i, left[i], right[i])
            ELSE Num(raw[i][1])]

\* C10: the per-index scans of the second pass give the same list as the
\* reference built from the two precomputed nearest-Valid arrays; every
\* entry is a function of the classified input alone.
C10_ScanMatchesSweeps ==
    Output = SubSeq(Reference(raw_elevations), 1, Len(Output))

C10_Witness ==
    /\ pc = "done"
    /\ Len(raw_elevations) = 4
    /\ raw_elevations[1] = Some(5)
    /\ Invalid(2)
    /\ Invalid(3)
    /\ raw_elevations[4] = Some(3)
    /\ response.value = Reference(raw_elevations)

(* ================= properties of the Telegram endpoints =============== *)

\* C11: an HTTPException raised inside the try block of upload_telegram_file
\* or download_telegram_file reaches the client with the status code and
\* the detail it was raised with: a refusal whose description contains
\* 'bot was blocked' or 'chat not found' answers 400 with the start-a-dialog
\* text, a getFile answer that is not ok or has no file_path answers 404.
C11_HTTPExceptionReachesClient ==
    /\ (pc = "raised" /\ exc.class = "HTTPException") =>
          /\ response.raised
          /\ response.status_code = exc.status_code
          /\ response.value = exc.detail
    /\ ( /\ pc = "raised"
         /\ handler = "upload_telegram_file"
         /\ reply.kind = "response"
         /\ reply.status_code # 200
         /\ reply.json_header /\ reply.parses
         /\ reply.description # None
         /\ \/ Contains(Lower(reply.description[1]), <<"bot", "was", "blocked">>)
            \/ Contains(Lower(reply.description[1]), <<"chat", "not", "found">>) ) =>
          /\ response.status_code = 400
          /\ response.value = <<"start", "a", "dialog", "with", "the", "bot">>
    /\ ( /\ pc = "raised"
         /\ handler = "download_telegram_file"
         /\ reply.kind = "response"
         /\ reply.status_code = 200
         /\ reply.parses
         /\ (~reply.ok \/ reply.file_path = None) ) =>
          response.status_code = 404

====
